---- MODULE Spec2Model ----
\* Upload relay of misinfoGuardBackend: POST /upload (three route variants) and
\* GET /, with the temp-file disk, the UserData collection and the Drive folder.
EXTENDS Integers, Sequences, FiniteSets, TLC

\* ------------------------------------------------------------------ bounds
NumReq == 2
MaxClock == 2

Reqs == 1..NumReq
Users == {"alice", "bob"}
Names == {"a", "b"}
NoMime == <<"", "">>
Mimes == {<<"video", "mp4">>, <<"image", "png">>, <<"application", "pdf">>}
Variants == {"dispatch", "videoOnly", "noCompress"}

VARIABLES variant, req, disk, db, drive, writeOrder, getResp
vars == <<variant, req, disk, db, drive, writeOrder, getResp>>

\* ------------------------------------------------------------- file system
\* disk: path -> <<r>>, the request whose write produced the file there, or NoFile
NoFile == <<>>
Paths == {"", "compressed_"} \X (0..MaxClock) \X Names

\* fs.existsSync
Exists(d, p) == d[p] # NoFile
RmNoop(d, p) == d
\* fs.unlinkSync on an existing path (on a missing one it throws ENOENT)
Rm(d, p) == [d EXCEPT ![p] = NoFile]
\* a file written by request r (multer's disk storage, ffmpeg's .save)
WriteFile(d, p, r) == [d EXCEPT ![p] = <<r>>]

\* multer.diskStorage filename callback: the original name, or in the
\* no-compression variant Date.now() + "_" + originalname
Filename(v, ts, name) == IF v = "noCompress" THEN <<ts, name>> ELSE <<0, name>>
\* req.file.path = destination + filename
InputPath(q) == <<"", q.filename[1], q.filename[2]>>
\* `uploads/compressed_${req.file.filename}`
CompressedPath(q) == <<"compressed_", q.filename[1], q.filename[2]>>

\* fileFilter of the video-only and no-compression variants
allowedTypes == {<<"video", "mp4">>, <<"video", "x-msvideo">>, <<"video", "quicktime">>}
FileFilterAccepts(v, mime) == v = "dispatch" \/ mime \in allowedTypes

\* req.file.mimetype.split("/")[0]
FileType(mime) == mime[1]

\* --------------------------------------------------------------- JS objects
\* A property read yields <<v>>, or <<>> for undefined; serialising an object
\* (res.json, the $push document) drops the undefined properties.
Pick(o, k) == IF k \in DOMAIN o THEN <<o[k]>> ELSE <<>>
JsObject(src) == [k \in {f \in DOMAIN src : src[f] # <<>>} |-> src[k][1]]

\* the clock value Date.now() of the latest request received so far
Now == CHOOSE t \in 1..MaxClock :
           /\ t = 1 \/ \E r \in Reqs : req[r].filename[1] = t
           /\ \A r \in Reqs : req[r].filename[1] <= t

\* ------------------------------------------------------------- persistence
\* The UserData collection: one document per email (unique key), holding the
\* ordered array `files`.
NoDoc == [exists |-> FALSE, files |-> <<>>]
EmptyDoc == [exists |-> TRUE, files |-> <<>>]

FindOneAndSet(d, email, rec) ==
    [d EXCEPT ![email] = [exists |-> TRUE, files |-> <<rec>>]]
\* UserData.findOneAndUpdate({email}, {$push: {files: rec}}, {upsert: true, new: true})
FindOneAndUpdate(d, email, rec) ==
    [d EXCEPT ![email] = [exists |-> TRUE, files |-> Append(d[email].files, rec)]]

\* UserData.findOne({email}): <<doc>> or <<>> for null
FindOne(d, email) == IF d[email].exists THEN <<d[email]>> ELSE <<>>

\* ------------------------------------------------------------------ detector
EmptyData == [empty |-> TRUE]
VideoData == {[score |-> "0.83", is_deepfake |-> TRUE], [score |-> "0.17", is_deepfake |-> FALSE]}
ImageData == {[probability |-> "0.83", is_deepfake |-> TRUE], [probability |-> "0.17", is_deepfake |-> FALSE]}
DetectorFailures == {[kind |-> "response", status |-> 500, data |-> EmptyData],
                     [kind |-> "timeout", status |-> 0, data |-> EmptyData],
                     [kind |-> "network", status |-> 0, data |-> EmptyData]}
\* what ${FLASK_API_URL}/detect and ${IMAGE_API_URL}/detect can answer
DetectorReplies(dataSet) ==
    {[kind |-> "response", status |-> 200, data |-> d] : d \in dataSet}
        \cup {[kind |-> "response", status |-> 204, data |-> EmptyData]}
        \cup DetectorFailures
\* axios.post resolves on a 2xx answer and rejects otherwise (default validateStatus)
AxiosResolves(reply) == reply.kind = "response" /\ reply.status >= 200 /\ reply.status < 300

\* -------------------------------------------------------------------- archive
ArchiveOutcomes == {"ok", "authFail", "createFail", "noAnswer", "noId", "permFail"}
\* `https://drive.google.com/uc?id=${response.data.id}`
Url(id) == <<"https://drive.google.com/uc?id=", id>>

\* the calls uploadToGoogleDrive makes, each with how it ended
AuthorizeOk == <<"authorize", "ok">>
CreateOk == <<"files.create", "ok">>
PermissionsOk == <<"permissions.create", "ok">>

UploadToGoogleDriveUnchecked(file, d, drv, r, out) ==
    LET id == Cardinality(drv) + 1
        obj == [id |-> id, owner |-> r, name |-> file.originalname, public |-> FALSE]
    IN  IF out \in {"authFail", "createFail", "noAnswer", "noId"} \/ file.path = <<>>
          THEN [settled |-> TRUE, threw |-> TRUE, url |-> <<>>, drive |-> drv, steps |-> <<>>]
        ELSE [settled |-> TRUE, threw |-> FALSE, url |-> <<Url(id)>>, drive |-> drv \cup {obj},
              steps |-> <<AuthorizeOk, CreateOk,
                          <<"permissions.create", IF out = "ok" THEN "ok" ELSE "threw">>>>]
\* uploadToGoogleDrive(file) for a file {path, originalname}, the collaborators
\* behaving as `out`: [settled, threw, url, drive, steps]. No call carries a
\* timeout: a Drive call that is never answered ("noAnswer") leaves the
\* promise unsettled.
UploadToGoogleDrive(file, d, drv, r, out) ==
    LET id == Cardinality(drv) + 1
        obj == [id |-> id, owner |-> r, name |-> file.originalname, public |-> FALSE]
        Throws(steps, drv2) ==
            [settled |-> TRUE, threw |-> TRUE, url |-> <<>>, drive |-> drv2, steps |-> steps]
    IN  IF file.path = <<>> THEN Throws(<<>>, drv)
        ELSE IF out = "authFail" THEN Throws(<<<<"authorize", "threw">>>>, drv)
        ELSE IF ~Exists(d, file.path[1]) \/ out = "createFail"
             THEN Throws(<<AuthorizeOk, <<"files.create", "threw">>>>, drv)
        ELSE IF out = "noAnswer"
             THEN [settled |-> FALSE, threw |-> FALSE, url |-> <<>>, drive |-> drv,
                   steps |-> <<AuthorizeOk, <<"files.create", "pending">>>>]
        ELSE IF out = "noId" THEN Throws(<<AuthorizeOk, <<"files.create", "noId">>>>, drv)
        ELSE IF out = "permFail"
             THEN Throws(<<AuthorizeOk, CreateOk, <<"permissions.create", "threw">>>>,
                         drv \cup {obj})
        ELSE [settled |-> TRUE, threw |-> FALSE, url |-> <<Url(id)>>,
              drive |-> drv \cup {[obj EXCEPT !.public = TRUE]},
              steps |-> <<AuthorizeOk, CreateOk, PermissionsOk>>]

\* ------------------------------------------------------------------ request
NoBody == [message |-> "none"]
\* pc: where the request's task is suspended; detector, archive, persist: how
\* each collaborator call of the request ended ("none": never called);
\* archiveSteps: the calls its uploadToGoogleDrive made
IdleReq == [pc |-> "idle", user |-> "alice", name |-> "", mime |-> NoMime,
            hasFile |-> FALSE, filename |-> <<0, "">>, status |-> 0, body |-> NoBody,
            data |-> EmptyData, fileUrl |-> <<>>,
            compress |-> "none", detector |-> "none", archive |-> "none", persist |-> "none",
            archiveSteps |-> <<>>]

\* await uploadToGoogleDrive(...) on a promise that never settles: the
\* handler stays suspended and sends no response
Unsettled(q, a) == [q EXCEPT !.pc = "hung", !.archive = "pending", !.archiveSteps = a.steps]

\* res.status(st).json(b), the handler returns
Respond(q, st, b) == [q EXCEPT !.pc = "done", !.status = st, !.body = b]

Init ==
    /\ variant \in Variants
    /\ req = [r \in Reqs |-> IdleReq]
    /\ disk = [p \in Paths |-> NoFile]
    /\ db \in {[u \in Users |-> NoDoc], [u \in Users |-> IF u = "bob" THEN EmptyDoc ELSE NoDoc]}
    /\ drive = {}
    /\ writeOrder = <<>>
    /\ getResp = [user |-> "alice", lookup |-> "none", status |-> 0, files |-> <<>>]


\* ------------------------------------------------------ HTTP layer (multer)
NoUpload == [name |-> "", mime |-> NoMime]
Uploads == {NoUpload} \cup [name : Names, mime : Mimes]

\* authenticateFirebaseUser, then upload.single("file"): the file filter, then
\* the disk storage writes uploads/<filename>; a filter error skips the route
\* handler and Express' default error handler answers 500
Receive(r) ==
    /\ req[r].pc = "idle"
    /\ \A s \in Reqs : s < r => req[s].pc # "idle"
    /\ \E u \in Users, f \in Uploads, ts \in Now..MaxClock :
         LET q == [IdleReq EXCEPT !.user = u, !.pc = "received", !.name = f.name, !.mime = f.mime]
             qf == [q EXCEPT !.hasFile = TRUE, !.filename = Filename(variant, ts, f.name)]
         IN  IF f = NoUpload
               THEN /\ req' = [req EXCEPT ![r] = q]
                    /\ UNCHANGED disk
             ELSE IF ~FileFilterAccepts(variant, f.mime)
               THEN /\ req' = [req EXCEPT ![r] = Respond(q, 500, [message |-> "Invalid file type"])]
                    /\ UNCHANGED disk
             ELSE /\ req' = [req EXCEPT ![r] = qf]
                  /\ disk' = WriteFile(disk, InputPath(qf), r)
    /\ UNCHANGED <<variant, db, drive, writeOrder, getResp>>

\* ---------------------------------------------- dispatch variant: POST /upload
handlers == {"video", "image"}
ErrorUploadingFileRetry(q) ==
    IF q.persist = "error" THEN [q EXCEPT !.pc = "persist"]
    ELSE Respond(q, 500, [message |-> "Error uploading file"])
\* the outer catch of the route
ErrorUploadingFile(q) == Respond(q, 500, [message |-> "Error uploading file"])

\* the route handler up to its first await
Upload(r) ==
    /\ variant = "dispatch"
    /\ req[r].pc = "received"
    /\ LET q == req[r]
           inputPath == InputPath(q)
       IN  IF ~q.hasFile
             THEN /\ req' = [req EXCEPT ![r] = Respond(q, 400, [message |-> "No file uploaded or invalid format"])]
                  /\ UNCHANGED disk
           ELSE IF FileType(q.mime) \notin handlers
             THEN IF Exists(disk, inputPath)
                    THEN /\ disk' = Rm(disk, inputPath)
                         /\ req' = [req EXCEPT ![r] = Respond(q, 400, [message |-> "Unsupported file type"])]
                    ELSE /\ req' = [req EXCEPT ![r] = ErrorUploadingFile(q)]
                         /\ UNCHANGED disk
           ELSE /\ req' = [req EXCEPT ![r].pc = IF FileType(q.mime) = "video" THEN "compress" ELSE "detect"]
                /\ UNCHANGED disk
    /\ UNCHANGED <<variant, db, drive, writeOrder, getResp>>

\* compressVideo(inputPath, outputPath): ffmpeg reads the input and saves the
\* output, or ends in error
CompressOutcomes == {"ok", "error"}
CompressVideo(d, inputPath, outputPath, r, out) ==
    IF out = "ok" /\ Exists(d, inputPath)
      THEN [ok |-> TRUE, disk |-> WriteFile(d, outputPath, r)]
      ELSE [ok |-> FALSE, disk |-> d]

\* axios.post(url, formData) with the file streamed from `path`: a missing file
\* fails the request body, otherwise the detector's reply decides
AxiosPost(d, path, reply) ==
    IF Exists(d, path) THEN reply ELSE [kind |-> "network", status |-> 0, data |-> EmptyData]

\* how a detector call ended, for the request's log
DetectorLog(reply) == IF reply.kind = "response" THEN ToString(reply.status) ELSE reply.kind

\* the {$push: {files: ...}} document and the 200 body of the video handler
VideoRecord(q) ==
    JsObject([fileName |-> <<q.name>>, fileUrl |-> q.fileUrl,
              score |-> Pick(q.data, "score"), is_deepfake |-> Pick(q.data, "is_deepfake")])
VideoBody(q) ==
    JsObject([message |-> <<"Video processed & uploaded">>, fileName |-> <<q.name>>,
              fileUrl |-> q.fileUrl, score |-> Pick(q.data, "score"),
              is_deepfake |-> Pick(q.data, "is_deepfake")])

\* handlers.video: await compressVideo(inputPath, compressedPath)
VideoCompress(r) ==
    /\ variant = "dispatch"
    /\ req[r].pc = "compress"
    /\ \E out \in CompressOutcomes :
         LET q == req[r]
             c == CompressVideo(disk, InputPath(q), CompressedPath(q), r, out)
         IN  /\ disk' = c.disk
             /\ req' = [req EXCEPT ![r] =
                   IF c.ok THEN [q EXCEPT !.pc = "compressed", !.compress = "ok"]
                   ELSE ErrorUploadingFile([q EXCEPT !.compress = "error"])]
    /\ UNCHANGED <<variant, db, drive, writeOrder, getResp>>

\* handlers.video: fs.unlinkSync(inputPath), then the detector call is issued
VideoAfterCompress(r) ==
    /\ variant = "dispatch"
    /\ req[r].pc = "compressed"
    /\ LET q == req[r] IN
       IF Exists(disk, InputPath(q))
         THEN /\ disk' = Rm(disk, InputPath(q))
              /\ req' = [req EXCEPT ![r].pc = "detect"]
         ELSE /\ req' = [req EXCEPT ![r] = ErrorUploadingFile(q)]
              /\ UNCHANGED disk
    /\ UNCHANGED <<variant, db, drive, writeOrder, getResp>>

\* handlers.video: the detector call settles; the catch of a rejection, or
\* the destructuring of the answer and the call of uploadToGoogleDrive
VideoDetect(r) ==
    /\ variant = "dispatch"
    /\ req[r].pc = "detect"
    /\ FileType(req[r].mime) = "video"
    /\ \E reply \in DetectorReplies(VideoData) :
         LET q == req[r]
             compressedPath == CompressedPath(q)
             flaskResponse == AxiosPost(disk, compressedPath, reply)
             ql == [q EXCEPT !.detector = DetectorLog(flaskResponse)]
         IN  IF ~AxiosResolves(flaskResponse)
               THEN IF Exists(disk, compressedPath)
                      THEN /\ disk' = Rm(disk, compressedPath)
                           /\ req' = [req EXCEPT ![r] =
                                 Respond(ql, 500, [message |-> "Flask API failed, upload canceled"])]
                      ELSE /\ req' = [req EXCEPT ![r] = ErrorUploadingFile(ql)]
                           /\ UNCHANGED disk
             ELSE /\ req' = [req EXCEPT ![r] = [ql EXCEPT !.pc = "archive", !.data = flaskResponse.data]]
                  /\ UNCHANGED disk
    /\ UNCHANGED <<variant, db, drive, writeOrder, getResp>>

\* handlers.video: uploadToGoogleDrive settles; a throw reaches the route's
\* catch; otherwise fs.unlinkSync(compressedPath) and findOneAndUpdate is issued
VideoArchive(r) ==
    /\ variant = "dispatch"
    /\ req[r].pc = "archive"
    /\ FileType(req[r].mime) = "video"
    /\ \E out \in ArchiveOutcomes :
         LET q == req[r]
             compressedPath == CompressedPath(q)
             a == UploadToGoogleDrive([path |-> <<compressedPath>>, originalname |-> q.filename],
                                      disk, drive, r, out)
         IN  /\ drive' = a.drive
             /\ IF ~a.settled
                  THEN /\ req' = [req EXCEPT ![r] = Unsettled(q, a)]
                       /\ UNCHANGED disk
                ELSE IF a.threw
                  THEN /\ req' = [req EXCEPT ![r] = ErrorUploadingFile([q EXCEPT !.archive = "threw", !.archiveSteps = a.steps])]
                       /\ UNCHANGED disk
                ELSE IF ~Exists(disk, compressedPath)
                  THEN /\ req' = [req EXCEPT ![r] =
                             ErrorUploadingFile([q EXCEPT !.archive = "ok", !.archiveSteps = a.steps, !.fileUrl = a.url])]
                       /\ UNCHANGED disk
                ELSE /\ disk' = Rm(disk, compressedPath)
                     /\ req' = [req EXCEPT ![r] =
                           [q EXCEPT !.pc = "persist", !.archive = "ok", !.archiveSteps = a.steps, !.fileUrl = a.url]]
    /\ UNCHANGED <<variant, db, writeOrder, getResp>>

\* handlers.video: the store applies the update, or the call rejects
PersistOutcomes == {"ok", "error"}
VideoPersist(r) ==
    /\ variant = "dispatch"
    /\ req[r].pc = "persist"
    /\ FileType(req[r].mime) = "video"
    /\ \E out \in PersistOutcomes :
         LET q == req[r] IN
         IF out = "ok"
           THEN /\ db' = FindOneAndUpdate(db, q.user, VideoRecord(q))
                /\ writeOrder' = Append(writeOrder, r)
                /\ req' = [req EXCEPT ![r] = [q EXCEPT !.pc = "respond", !.persist = "ok"]]
           ELSE /\ req' = [req EXCEPT ![r] = ErrorUploadingFile([q EXCEPT !.persist = "error"])]
                /\ UNCHANGED <<db, writeOrder>>
    /\ UNCHANGED <<variant, disk, drive, getResp>>

\* handlers.video: res.status(200).json(...)
VideoRespond(r) ==
    /\ variant = "dispatch"
    /\ req[r].pc = "respond"
    /\ FileType(req[r].mime) = "video"
    /\ req' = [req EXCEPT ![r] = Respond(req[r], 200, VideoBody(req[r]))]
    /\ UNCHANGED <<variant, disk, db, drive, writeOrder, getResp>>

ImageRecordRaw(q) ==
    JsObject([fileName |-> <<q.name>>, fileUrl |-> q.fileUrl,
              is_deepfake |-> Pick(q.data, "is_deepfake"), score |-> Pick(q.data, "score")])
\* the {$push: {files: ...}} document and the 200 body of the image handler
ImageRecord(q) ==
    JsObject([fileName |-> <<q.name>>, fileUrl |-> q.fileUrl,
              is_deepfake |-> Pick(q.data, "is_deepfake"), score |-> Pick(q.data, "probability")])
ImageBody(q) ==
    JsObject([message |-> <<"Image processed & uploaded">>, fileName |-> <<q.name>>,
              fileUrl |-> q.fileUrl, is_deepfake |-> Pick(q.data, "is_deepfake"),
              score |-> Pick(q.data, "probability")])

\* handlers.image: catch (error) { fs.unlinkSync(inputPath); 500 }, the unlink
\* throwing into the route's catch when the file is gone: [q, disk]
ImageCatch(q, d) ==
    IF Exists(d, InputPath(q))
      THEN [q |-> Respond(q, 500, [message |-> "Image processing failed"]),
            disk |-> Rm(d, InputPath(q))]
      ELSE [q |-> ErrorUploadingFile(q), disk |-> d]

\* handlers.image: the detector call settles; status check, destructuring and
\* the call of uploadToGoogleDrive, or the catch
ImageDetect(r) ==
    /\ variant = "dispatch"
    /\ req[r].pc = "detect"
    /\ FileType(req[r].mime) = "image"
    /\ \E reply \in DetectorReplies(ImageData) :
         LET q == req[r]
             imageResponse == AxiosPost(disk, InputPath(q), reply)
             ql == [q EXCEPT !.detector = DetectorLog(imageResponse)]
             c == ImageCatch(ql, disk)
         IN  IF ~AxiosResolves(imageResponse) \/ imageResponse.status # 200
               THEN /\ req' = [req EXCEPT ![r] = c.q]
                    /\ disk' = c.disk
             ELSE /\ req' = [req EXCEPT ![r] = [ql EXCEPT !.pc = "archive", !.data = imageResponse.data]]
                  /\ UNCHANGED disk
    /\ UNCHANGED <<variant, db, drive, writeOrder, getResp>>

\* handlers.image: uploadToGoogleDrive settles; fs.unlinkSync(inputPath) and
\* findOneAndUpdate is issued, or the catch
ImageArchive(r) ==
    /\ variant = "dispatch"
    /\ req[r].pc = "archive"
    /\ FileType(req[r].mime) = "image"
    /\ \E out \in ArchiveOutcomes :
         LET q == req[r]
             inputPath == InputPath(q)
             a == UploadToGoogleDrive([path |-> <<inputPath>>, originalname |-> q.filename],
                                      disk, drive, r, out)
             qa == IF a.threw THEN [q EXCEPT !.archive = "threw", !.archiveSteps = a.steps]
                   ELSE [q EXCEPT !.archive = "ok", !.archiveSteps = a.steps, !.fileUrl = a.url]
             c == ImageCatch(qa, disk)
         IN  /\ drive' = a.drive
             /\ IF ~a.settled
                  THEN /\ req' = [req EXCEPT ![r] = Unsettled(q, a)]
                       /\ UNCHANGED disk
                ELSE IF a.threw \/ ~Exists(disk, inputPath)
                  THEN /\ req' = [req EXCEPT ![r] = c.q]
                       /\ disk' = c.disk
                  ELSE /\ disk' = Rm(disk, inputPath)
                       /\ req' = [req EXCEPT ![r] = [qa EXCEPT !.pc = "persist"]]
    /\ UNCHANGED <<variant, db, writeOrder, getResp>>

\* handlers.image: the store applies the update, or the call rejects into the catch
ImagePersist(r) ==
    /\ variant = "dispatch"
    /\ req[r].pc = "persist"
    /\ FileType(req[r].mime) = "image"
    /\ \E out \in PersistOutcomes :
         LET q == req[r]
             c == ImageCatch([q EXCEPT !.persist = "error"], disk)
         IN  IF out = "ok"
               THEN /\ db' = FindOneAndUpdate(db, q.user, ImageRecord(q))
                    /\ writeOrder' = Append(writeOrder, r)
                    /\ req' = [req EXCEPT ![r] = [q EXCEPT !.pc = "respond", !.persist = "ok"]]
                    /\ UNCHANGED disk
               ELSE /\ req' = [req EXCEPT ![r] = c.q]
                    /\ disk' = c.disk
                    /\ UNCHANGED <<db, writeOrder>>
    /\ UNCHANGED <<variant, drive, getResp>>

\* handlers.image: res.status(200).json(...)
ImageRespond(r) ==
    /\ variant = "dispatch"
    /\ req[r].pc = "respond"
    /\ FileType(req[r].mime) = "image"
    /\ req' = [req EXCEPT ![r] = Respond(req[r], 200, ImageBody(req[r]))]
    /\ UNCHANGED <<variant, disk, db, drive, writeOrder, getResp>>

\* ------------------------------------------- video-only variant: POST /upload
\* the route handler up to await compressVideo
VideoOnlyUpload(r) ==
    /\ variant = "videoOnly"
    /\ req[r].pc = "received"
    /\ LET q == req[r] IN
       req' = [req EXCEPT ![r] =
                 IF ~q.hasFile
                   THEN Respond(q, 400, [message |-> "No file uploaded or invalid format"])
                   ELSE [q EXCEPT !.pc = "compress"]]
    /\ UNCHANGED <<variant, disk, db, drive, writeOrder, getResp>>

\* await compressVideo(inputPath, compressedPath)
VideoOnlyCompress(r) ==
    /\ variant = "videoOnly"
    /\ req[r].pc = "compress"
    /\ \E out \in CompressOutcomes :
         LET q == req[r]
             c == CompressVideo(disk, InputPath(q), CompressedPath(q), r, out)
         IN  /\ disk' = c.disk
             /\ req' = [req EXCEPT ![r] =
                   IF c.ok THEN [q EXCEPT !.pc = "compressed", !.compress = "ok"]
                   ELSE ErrorUploadingFile([q EXCEPT !.compress = "error"])]
    /\ UNCHANGED <<variant, db, drive, writeOrder, getResp>>

\* fs.unlinkSync(inputPath), then the detector call is issued
VideoOnlyAfterCompress(r) ==
    /\ variant = "videoOnly"
    /\ req[r].pc = "compressed"
    /\ LET q == req[r] IN
       IF Exists(disk, InputPath(q))
         THEN /\ disk' = Rm(disk, InputPath(q))
              /\ req' = [req EXCEPT ![r].pc = "detect"]
         ELSE /\ req' = [req EXCEPT ![r] = ErrorUploadingFile(q)]
              /\ UNCHANGED disk
    /\ UNCHANGED <<variant, db, drive, writeOrder, getResp>>

\* the detector call settles: the catch of a rejection, the status check, or
\* the destructuring of the answer and the call of uploadToGoogleDrive
VideoOnlyDetect(r) ==
    /\ variant = "videoOnly"
    /\ req[r].pc = "detect"
    /\ \E reply \in DetectorReplies(VideoData) :
         LET q == req[r]
             compressedPath == CompressedPath(q)
             flaskResponse == AxiosPost(disk, compressedPath, reply)
             ql == [q EXCEPT !.detector = DetectorLog(flaskResponse)]
         IN  IF ~AxiosResolves(flaskResponse) \/ flaskResponse.status # 200
               THEN IF Exists(disk, compressedPath)
                      THEN /\ disk' = Rm(disk, compressedPath)
                           /\ req' = [req EXCEPT ![r] = Respond(ql, 500,
                                 [message |-> IF AxiosResolves(flaskResponse)
                                                THEN "Unexpected Flask API response"
                                                ELSE "Flask API failed, upload canceled"])]
                      ELSE /\ req' = [req EXCEPT ![r] = ErrorUploadingFile(ql)]
                           /\ UNCHANGED disk
             ELSE /\ req' = [req EXCEPT ![r] = [ql EXCEPT !.pc = "archive", !.data = flaskResponse.data]]
                  /\ UNCHANGED disk
    /\ UNCHANGED <<variant, db, drive, writeOrder, getResp>>

\* uploadToGoogleDrive settles: a throw reaches the route's catch, otherwise
\* findOneAndUpdate is issued
VideoOnlyArchive(r) ==
    /\ variant = "videoOnly"
    /\ req[r].pc = "archive"
    /\ \E out \in ArchiveOutcomes :
         LET q == req[r]
             a == UploadToGoogleDrive([path |-> <<CompressedPath(q)>>, originalname |-> q.filename],
                                      disk, drive, r, out)
         IN  /\ drive' = a.drive
             /\ req' = [req EXCEPT ![r] =
                   IF ~a.settled THEN Unsettled(q, a)
                   ELSE IF a.threw THEN ErrorUploadingFile([q EXCEPT !.archive = "threw", !.archiveSteps = a.steps])
                   ELSE [q EXCEPT !.pc = "persist", !.archive = "ok", !.archiveSteps = a.steps, !.fileUrl = a.url]]
    /\ UNCHANGED <<variant, disk, db, writeOrder, getResp>>

\* the store applies the update, or the call rejects
VideoOnlyPersist(r) ==
    /\ variant = "videoOnly"
    /\ req[r].pc = "persist"
    /\ \E out \in PersistOutcomes :
         LET q == req[r] IN
         IF out = "ok"
           THEN /\ db' = FindOneAndUpdate(db, q.user, VideoRecord(q))
                /\ writeOrder' = Append(writeOrder, r)
                /\ req' = [req EXCEPT ![r] = [q EXCEPT !.pc = "respond", !.persist = "ok"]]
           ELSE /\ req' = [req EXCEPT ![r] = ErrorUploadingFile([q EXCEPT !.persist = "error"])]
                /\ UNCHANGED <<db, writeOrder>>
    /\ UNCHANGED <<variant, disk, drive, getResp>>

VideoOnlyBody(q) ==
    JsObject([message |-> <<"File compressed, uploaded & link saved">>, fileName |-> <<q.name>>,
              fileUrl |-> q.fileUrl, score |-> Pick(q.data, "score"),
              is_deepfake |-> Pick(q.data, "is_deepfake")])

\* fs.unlinkSync(compressedPath), then res.status(200).json(...)
VideoOnlyRespond(r) ==
    /\ variant = "videoOnly"
    /\ req[r].pc = "respond"
    /\ LET q == req[r] IN
       IF Exists(disk, CompressedPath(q))
         THEN /\ disk' = Rm(disk, CompressedPath(q))
              /\ req' = [req EXCEPT ![r] = Respond(q, 200, VideoOnlyBody(q))]
         ELSE /\ req' = [req EXCEPT ![r] = ErrorUploadingFile(q)]
              /\ UNCHANGED disk
    /\ UNCHANGED <<variant, db, drive, writeOrder, getResp>>

\* ------------------------------------- no-compression variant: POST /upload
\* the route handler up to the detector call
NoCompressUpload(r) ==
    /\ variant = "noCompress"
    /\ req[r].pc = "received"
    /\ LET q == req[r] IN
       req' = [req EXCEPT ![r] =
                 IF ~q.hasFile
                   THEN Respond(q, 400, [message |-> "No file uploaded or invalid format"])
                 ELSE IF ~Exists(disk, InputPath(q))
                   THEN Respond(q, 500, [message |-> "Temporary file not found"])
                 ELSE [q EXCEPT !.pc = "detect"]]
    /\ UNCHANGED <<variant, disk, db, drive, writeOrder, getResp>>

\* the detector call settles: the catch of a rejection, the status check, or
\* the destructuring of the answer and the call of uploadToGoogleDrive
NoCompressDetect(r) ==
    /\ variant = "noCompress"
    /\ req[r].pc = "detect"
    /\ \E reply \in DetectorReplies(VideoData) :
         LET q == req[r]
             path == InputPath(q)
             flaskResponse == AxiosPost(disk, path, reply)
             ql == [q EXCEPT !.detector = DetectorLog(flaskResponse)]
         IN  IF ~AxiosResolves(flaskResponse) \/ flaskResponse.status # 200
               THEN IF Exists(disk, path)
                      THEN /\ disk' = Rm(disk, path)
                           /\ req' = [req EXCEPT ![r] = Respond(ql, 500,
                                 [message |-> IF AxiosResolves(flaskResponse)
                                                THEN "Unexpected Flask API response"
                                                ELSE "Flask API failed, upload canceled"])]
                      ELSE /\ req' = [req EXCEPT ![r] = ErrorUploadingFile(ql)]
                           /\ UNCHANGED disk
             ELSE /\ req' = [req EXCEPT ![r] = [ql EXCEPT !.pc = "archive", !.data = flaskResponse.data]]
                  /\ UNCHANGED disk
    /\ UNCHANGED <<variant, db, drive, writeOrder, getResp>>

\* uploadToGoogleDrive(req.file) settles: a throw reaches the route's catch,
\* otherwise findOneAndUpdate is issued
NoCompressArchive(r) ==
    /\ variant = "noCompress"
    /\ req[r].pc = "archive"
    /\ \E out \in ArchiveOutcomes :
         LET q == req[r]
             a == UploadToGoogleDrive([path |-> <<InputPath(q)>>, originalname |-> q.name],
                                      disk, drive, r, out)
         IN  /\ drive' = a.drive
             /\ req' = [req EXCEPT ![r] =
                   IF ~a.settled THEN Unsettled(q, a)
                   ELSE IF a.threw THEN ErrorUploadingFile([q EXCEPT !.archive = "threw", !.archiveSteps = a.steps])
                   ELSE [q EXCEPT !.pc = "persist", !.archive = "ok", !.archiveSteps = a.steps, !.fileUrl = a.url]]
    /\ UNCHANGED <<variant, disk, db, writeOrder, getResp>>

\* the {$push: {files: ...}} document and the 200 body of this variant
NoCompressRecord(q) ==
    JsObject([fileUrl |-> q.fileUrl, score |-> Pick(q.data, "score"),
              is_deepfake |-> Pick(q.data, "is_deepfake")])
NoCompressBody(q) ==
    JsObject([message |-> <<"File uploaded & link saved">>, fileUrl |-> q.fileUrl,
              score |-> Pick(q.data, "score"), is_deepfake |-> Pick(q.data, "is_deepfake")])

\* the store applies the update, or the call rejects
NoCompressPersist(r) ==
    /\ variant = "noCompress"
    /\ req[r].pc = "persist"
    /\ \E out \in PersistOutcomes :
         LET q == req[r] IN
         IF out = "ok"
           THEN /\ db' = FindOneAndUpdate(db, q.user, NoCompressRecord(q))
                /\ writeOrder' = Append(writeOrder, r)
                /\ req' = [req EXCEPT ![r] = [q EXCEPT !.pc = "respond", !.persist = "ok"]]
           ELSE /\ req' = [req EXCEPT ![r] = ErrorUploadingFile([q EXCEPT !.persist = "error"])]
                /\ UNCHANGED <<db, writeOrder>>
    /\ UNCHANGED <<variant, disk, drive, getResp>>

\* fs.unlinkSync(req.file.path), then res.status(200).json(...)
NoCompressRespond(r) ==
    /\ variant = "noCompress"
    /\ req[r].pc = "respond"
    /\ LET q == req[r] IN
       IF Exists(disk, InputPath(q))
         THEN /\ disk' = Rm(disk, InputPath(q))
              /\ req' = [req EXCEPT ![r] = Respond(q, 200, NoCompressBody(q))]
         ELSE /\ req' = [req EXCEPT ![r] = ErrorUploadingFile(q)]
              /\ UNCHANGED disk
    /\ UNCHANGED <<variant, db, drive, writeOrder, getResp>>

\* -------------------------------------------------------------------- GET /
\* GET / (getResp: the latest answer, lookup: how its findOne ended)
\* findOne, then 404, 200 with the files, or 500 when the lookup rejects
LookupOutcomes == {"ok", "error"}
ListFilesNoEmptyCheck(d, email, out) ==
    LET userData == FindOne(d, email) IN
    IF out = "error" THEN [status |-> 500, files |-> <<>>]
    ELSE IF userData = <<>> THEN [status |-> 404, files |-> <<>>]
    ELSE [status |-> 200, files |-> userData[1].files]
ListFiles(d, email, out) ==
    LET userData == FindOne(d, email) IN
    IF out = "error" THEN [status |-> 500, files |-> <<>>]
    ELSE IF userData = <<>> \/ Len(userData[1].files) = 0 THEN [status |-> 404, files |-> <<>>]
    ELSE [status |-> 200, files |-> userData[1].files]

Get(u) ==
    /\ \E out \in LookupOutcomes :
         LET l == ListFiles(db, u, out) IN
         getResp' = [user |-> u, lookup |-> out, status |-> l.status, files |-> l.files]
    /\ UNCHANGED <<variant, req, disk, db, drive, writeOrder>>

\* one step of one POST /upload request
UploadStep(r) ==
    \/ Receive(r)
    \/ Upload(r)
    \/ VideoCompress(r) \/ VideoAfterCompress(r) \/ VideoDetect(r)
    \/ VideoArchive(r) \/ VideoPersist(r) \/ VideoRespond(r)
    \/ ImageDetect(r) \/ ImageArchive(r) \/ ImagePersist(r) \/ ImageRespond(r)
    \/ VideoOnlyUpload(r) \/ VideoOnlyCompress(r) \/ VideoOnlyAfterCompress(r)
    \/ VideoOnlyDetect(r) \/ VideoOnlyArchive(r) \/ VideoOnlyPersist(r) \/ VideoOnlyRespond(r)
    \/ NoCompressUpload(r) \/ NoCompressDetect(r) \/ NoCompressArchive(r)
    \/ NoCompressPersist(r) \/ NoCompressRespond(r)

Next ==
    \/ \E r \in Reqs : UploadStep(r)
    \/ \E u \in Users : Get(u)

\* the uploads alone (GET / changes nothing they read)
UploadNext == \E r \in Reqs : UploadStep(r)

Spec == Init /\ [][UploadNext]_vars
SpecList == Init /\ [][Next]_vars
\* uploadToGoogleDrive on its own: each call takes a file argument with or
\* without a path, on a disk that holds the file or not
DriveFiles == {[path |-> <<>>, originalname |-> "a"]}
                 \cup {[path |-> <<p>>, originalname |-> "a"] : p \in {<<"", 0, "a">>, <<"", 0, "b">>}}
InitDrive ==
    /\ variant \in Variants
    /\ req = [r \in Reqs |-> IdleReq]
    /\ disk \in {[p \in Paths |-> IF p = <<"", 0, "a">> /\ present THEN <<1>> ELSE NoFile] :
                   present \in BOOLEAN}
    /\ db = [u \in Users |-> NoDoc]
    /\ drive = {}
    /\ writeOrder = <<>>
    /\ getResp = [user |-> "alice", lookup |-> "none", status |-> 0, files |-> <<>>]
DriveCall(r) ==
    /\ req[r].pc = "idle"
    /\ \E file \in DriveFiles, out \in ArchiveOutcomes :
         LET a == UploadToGoogleDrive(file, disk, drive, r, out) IN
         /\ drive' = a.drive
         /\ req' = [req EXCEPT ![r] =
               [IdleReq EXCEPT !.pc = "called", !.hasFile = (file.path # <<>>),
                               !.archive = IF ~a.settled THEN "pending"
                                           ELSE IF a.threw THEN "threw" ELSE "ok",
                               !.archiveSteps = a.steps, !.fileUrl = a.url]]
    /\ UNCHANGED <<variant, disk, db, writeOrder, getResp>>
SpecDrive == InitDrive /\ [][\E r \in Reqs : DriveCall(r)]_vars

\* every request's task is resumed whenever the call it awaits has settled
SpecLive == Init /\ [][UploadNext]_vars /\ \A r \in Reqs : WF_vars(UploadStep(r))


\* =================================================================== claims
Done(r) == req[r].pc = "done"
\* the temp files on disk that request r wrote (its upload, its compressed artifact)
TempFilesOf(r) == {p \in Paths : disk[p] = <<r>>}
\* the FileRecords in storage that carry the URL request r obtained from the archive
RecordsOf(r) ==
    IF req[r].fileUrl = <<>> THEN {}
    ELSE {ui \in Users \X (1..NumReq) :
            /\ ui[2] <= Len(db[ui[1]].files)
            /\ db[ui[1]].files[ui[2]].fileUrl = req[r].fileUrl[1]}
ResponseFields == {"fileName", "fileUrl", "score", "is_deepfake"}
SupportedKinds == {"video", "image"}
DetectorFailed(r) == req[r].detector \in {"timeout", "network", "500", "204"}

\* C1: every ended upload either created one FileRecord for its user and was
\* answered 200 with fileName, fileUrl, score and is_deepfake, or created no
\* record, left none of its temp files and was answered 4xx/5xx.
C1_AllOrNothing ==
    \A r \in Reqs : Done(r) =>
        \/ /\ Cardinality(RecordsOf(r)) = 1
           /\ \A ui \in RecordsOf(r) : ui[1] = req[r].user
           /\ req[r].status = 200
           /\ ResponseFields \subseteq DOMAIN req[r].body
        \/ /\ RecordsOf(r) = {}
           /\ TempFilesOf(r) = {}
           /\ req[r].status >= 400 /\ req[r].status <= 599

\* C2: once an upload has sent its response, neither the temp file it was
\* uploaded to nor its compressed artifact is on disk, whatever the exit path.
C2_NoTempFileOutlivesRequest ==
    \A r \in Reqs : Done(r) => TempFilesOf(r) = {}

\* C3: a video or image upload whose detection, archive and persistence all
\* succeeded leaves none of its temp files and exactly one FileRecord, in its
\* user's aggregate.
C3_SuccessLeavesOneRecordNoFiles ==
    \A r \in Reqs :
        (/\ Done(r)
         /\ FileType(req[r].mime) \in SupportedKinds
         /\ req[r].compress # "error"
         /\ req[r].detector = "200" /\ req[r].archive = "ok" /\ req[r].persist = "ok")
        => /\ TempFilesOf(r) = {}
           /\ Cardinality(RecordsOf(r)) = 1
           /\ \A ui \in RecordsOf(r) : ui[1] = req[r].user
C3_Witness ==
    /\ variant = "dispatch"
    /\ \E r, s \in Reqs :
         /\ FileType(req[r].mime) = "video" /\ FileType(req[s].mime) = "image"
         /\ req[r].name = req[s].name /\ req[r].user = req[s].user
         /\ \A t \in {r, s} : /\ Done(t) /\ req[t].status = 200 /\ req[t].compress # "error"
                              /\ req[t].detector = "200" /\ req[t].archive = "ok"
                              /\ req[t].persist = "ok"

\* C4: an upload whose detector call timed out, failed in transport or was
\* answered with a status other than 200 is answered 5xx, leaves none of its
\* temp files, and neither the archive nor the store was called for it.
C4_DetectorFailureStops ==
    \A r \in Reqs : (Done(r) /\ DetectorFailed(r)) =>
        /\ req[r].status >= 500 /\ req[r].status <= 599
        /\ TempFilesOf(r) = {}
        /\ req[r].archive = "none" /\ req[r].persist = "none"

\* C5: an upload (video or image) whose archive call threw after the detector
\* succeeded has no FileRecord and leaves none of its temp files.
C5_ArchiveFailureCleansUp ==
    \A r \in Reqs :
        (/\ Done(r) /\ variant = "dispatch" /\ FileType(req[r].mime) \in SupportedKinds
         /\ req[r].detector = "200" /\ req[r].archive = "threw")
        => RecordsOf(r) = {} /\ TempFilesOf(r) = {}

\* C6: an upload whose MIME type is neither video/* nor image/* is answered
\* 400, leaves no temp file, and no compression, detector, archive or
\* persistence step ran for it.
C6_UnsupportedKindRejected ==
    \A r \in Reqs :
        (Done(r) /\ req[r].mime # NoMime /\ FileType(req[r].mime) \notin SupportedKinds)
        => /\ req[r].status = 400
           /\ TempFilesOf(r) = {}
           /\ req[r].compress = "none" /\ req[r].detector = "none"
           /\ req[r].archive = "none" /\ req[r].persist = "none"

\* the URLs of the records of user u, in storage order
StoredUrls(u) == [i \in 1..Len(db[u].files) |-> db[u].files[i].fileUrl]
\* the URLs of the requests of user u whose persistence write completed, in
\* the order the writes completed
RECURSIVE WrittenUrls(_, _)
WrittenUrls(u, order) ==
    IF order = <<>> THEN <<>>
    ELSE IF req[Head(order)].user = u
           THEN <<req[Head(order)].fileUrl[1]>> \o WrittenUrls(u, Tail(order))
           ELSE WrittenUrls(u, Tail(order))

\* C7: the aggregate of a user holds the FileRecord of every upload of that
\* user whose persistence write completed, in the order the writes completed,
\* also when the writes of concurrent uploads interleave and the first upserts.
C7_ConcurrentAppendsKept ==
    \A u \in Users : StoredUrls(u) = WrittenUrls(u, writeOrder)
C7_Witness ==
    /\ req[1].user = "alice" /\ req[2].user = "alice"
    /\ req[1].pc = "respond" /\ req[2].pc = "respond"
    /\ writeOrder = <<2, 1>>
    /\ Len(db["alice"].files) = 2

\* C8: every FileRecord in storage was written by a request of that user
\* whose detector call was answered 200 with a score and whose archive call
\* returned the record's fileUrl; a request whose compression, detection or
\* archive failed has no record.
C8_RecordsAreArchivedAndScored ==
    /\ \A u \in Users : \A i \in 1..Len(db[u].files) :
         /\ "score" \in DOMAIN db[u].files[i]
         /\ \E r \in Reqs :
              /\ req[r].user = u
              /\ req[r].detector = "200" /\ req[r].archive = "ok"
              /\ req[r].fileUrl = <<db[u].files[i].fileUrl>>
              /\ \E o \in drive : o.owner = r /\ o.public /\ Url(o.id) = db[u].files[i].fileUrl
    /\ \A r \in Reqs :
         (req[r].compress = "error" \/ DetectorFailed(r) \/ req[r].archive = "threw")
         => RecordsOf(r) = {}

\* the answer GET / owes user u in the current state of the store
Expected404(u) == ~db[u].exists \/ Len(db[u].files) = 0
Answered == getResp' # getResp

\* C9 as claimed: GET / answers 404 when the user's aggregate is absent or
\* empty and otherwise 200 with that user's records in insertion order, and
\* changes no aggregate and no file.
C9_ListFilesAsClaimed ==
    [][Answered =>
         /\ IF Expected404(getResp'.user) THEN getResp'.status = 404
            ELSE getResp'.status = 200 /\ getResp'.files = db[getResp'.user].files
         /\ db' = db /\ disk' = disk]_vars

\* C9: GET / answers 500 when the lookup fails; when it succeeds, 404 when the
\* user's aggregate is absent or empty and otherwise 200 with that user's
\* records in insertion order; it changes no aggregate and no file.
C9_ListFiles ==
    [][Answered =>
         /\ IF getResp'.lookup = "error" THEN getResp'.status = 500
            ELSE IF Expected404(getResp'.user) THEN getResp'.status = 404
            ELSE getResp'.status = 200 /\ getResp'.files = db[getResp'.user].files
         /\ db' = db /\ disk' = disk]_vars
C9_Witness ==
    /\ getResp.user = "alice" /\ getResp.status = 200
    /\ Len(getResp.files) = 1 /\ getResp.files = db["alice"].files
    /\ Len(db["bob"].files) = 1

\* the uploads of user u that were received, and those answered 200
UploadsOf(u) == {r \in Reqs : req[r].pc # "idle" /\ req[r].user = u}
SucceededOf(u) == {r \in UploadsOf(u) : Done(r) /\ req[r].status = 200}

\* C10: a GET / whose lookup succeeds answers 404 while no upload of the user
\* has written a record; after the user's only upload was answered 200 it
\* answers 200 with one entry carrying the uploaded file's name and the URL,
\* both as returned in that upload's response.
C10_FirstUploadListed ==
    [][(Answered /\ getResp'.lookup = "ok") =>
         LET u == getResp'.user IN
         /\ (\A r \in UploadsOf(u) : req[r].persist # "ok") => getResp'.status = 404
         /\ \A r \in Reqs :
              (UploadsOf(u) = {r} /\ SucceededOf(u) = {r}) =>
                  /\ getResp'.status = 200
                  /\ Len(getResp'.files) = 1
                  /\ Pick(getResp'.files[1], "fileName") = <<req[r].name>>
                  /\ Pick(getResp'.files[1], "fileName") = Pick(req[r].body, "fileName")
                  /\ Pick(getResp'.files[1], "fileUrl") = Pick(req[r].body, "fileUrl")]_vars

\* the property of the detector's answer that carries the likelihood
ScoreKey(r) ==
    IF variant = "dispatch" /\ FileType(req[r].mime) = "image" THEN "probability" ELSE "score"
Succeeded(r) == Done(r) /\ req[r].status = 200

\* C11: an upload answered 200 has a record, and its response and its record
\* carry the same score and is_deepfake; when the detector answered 200 with
\* {probability | score: p, is_deepfake: b} both carry score = p, is_deepfake = b.
C11_ScoreNormalized ==
    \A r \in Reqs : Succeeded(r) =>
        /\ RecordsOf(r) # {}
        /\ \A ui \in RecordsOf(r) :
             LET rec == db[ui[1]].files[ui[2]] IN
             /\ Pick(rec, "score") = Pick(req[r].body, "score")
             /\ Pick(rec, "is_deepfake") = Pick(req[r].body, "is_deepfake")
             /\ req[r].detector = "200" =>
                  /\ Pick(req[r].data, ScoreKey(r)) # <<>>
                  /\ Pick(rec, "score") = Pick(req[r].data, ScoreKey(r))
                  /\ Pick(rec, "is_deepfake") = Pick(req[r].data, "is_deepfake")
C11_Witness ==
    /\ variant = "dispatch"
    /\ \E r, s \in Reqs :
         /\ Succeeded(r) /\ FileType(req[r].mime) = "image"
         /\ req[r].data = [probability |-> "0.83", is_deepfake |-> TRUE]
         /\ Pick(req[r].body, "score") = <<"0.83">> /\ Pick(req[r].body, "is_deepfake") = <<TRUE>>
         /\ Succeeded(s) /\ FileType(req[s].mime) = "video"
         /\ req[s].data = [score |-> "0.17", is_deepfake |-> FALSE]
         /\ Pick(req[s].body, "score") = <<"0.17">> /\ Pick(req[s].body, "is_deepfake") = <<FALSE>>

\* C12: an upload whose re-encoding failed is answered 5xx, its uploaded temp
\* file is removed, and it has no compressed artifact, detector call, archive
\* call or FileRecord.
C12_CompressionFailureCleansUp ==
    \A r \in Reqs : (Done(r) /\ req[r].compress = "error") =>
        /\ req[r].status >= 500 /\ req[r].status <= 599
        /\ TempFilesOf(r) = {}
        /\ req[r].detector = "none" /\ req[r].archive = "none" /\ req[r].persist = "none"
        /\ RecordsOf(r) = {}

InFlight(r) == req[r].pc \notin {"idle", "done"}

\* C13: a temp file or compressed artifact written by a request that is still
\* in flight is overwritten or deleted only by a step of that request.
C13_TempFilesExclusivelyOwned ==
    [][\A p \in Paths : \A s \in Reqs :
          (disk[p] = <<s>> /\ InFlight(s) /\ disk'[p] # disk[p]) => req'[s] # req[s]]_vars

\* a video upload in a variant that re-encodes
Reencoded(r) == variant \in {"dispatch", "videoOnly"} /\ FileType(req[r].mime) = "video"

\* C14: in a video upload the detector call runs only after re-encoding ended
\* and the original was deleted, the archive call only after the detector
\* answered, the persistence write only after the archive returned and the
\* compressed artifact was deleted, and the 200 response only after the write.
C14_StagesInSequence ==
    [][\A r \in Reqs : Reencoded(r) =>
          LET q == req'[r] IN
          /\ q.pc = "detect" => q.compress = "ok" /\ disk'[InputPath(q)] # <<r>>
          /\ q.detector # "none" => q.compress = "ok"
          /\ q.archive # "none" => q.detector \in {"200", "204"}
          /\ (req[r].persist = "none" /\ q.persist # "none") =>
                 q.archive = "ok" /\ disk'[CompressedPath(q)] # <<r>>
          /\ (q.pc = "done" /\ q.status = 200) => q.persist = "ok"]_vars

\* C15: every upload that begins processing is eventually answered (a
\* response ends the request, so it is answered once), also when the detector
\* or the archive never answers.
C15_EveryUploadAnswered ==
    \A r \in Reqs : (req[r].pc = "received") ~> Done(r)

DetectorFailureMessages ==
    {"Flask API failed, upload canceled", "Unexpected Flask API response", "Image processing failed"}

\* C16: a failing cleanup does not change the answer: an upload of an
\* unsupported kind that reached the handler is answered 400, and an upload
\* whose detector call was rejected is answered 500 with the detector-failure
\* message.
C16_CleanupFailureDoesNotMask ==
    \A r \in Reqs : Done(r) =>
        /\ (variant = "dispatch" /\ req[r].hasFile /\ FileType(req[r].mime) \notin SupportedKinds)
              => req[r].status = 400
        /\ req[r].detector \in {"timeout", "network", "500"}
              => req[r].status = 500 /\ req[r].body.message \in DetectorFailureMessages

\* C17: an upload that ends because its temp file was not found on disk is
\* answered with a 4xx status.
C17_MissingFileIsClientError ==
    \A r \in Reqs : (Done(r) /\ req[r].body.message = "Temporary file not found")
        => req[r].status >= 400 /\ req[r].status <= 499

\* what request r has produced: Drive objects, compressed artifacts on disk
ObjectsOf(r) == {o \in drive : o.owner = r}
ArtifactsOf(r) == {p \in TempFilesOf(r) : p[1] = "compressed_"}
\* a call of request r that was made is never made again
NoSecondCall(r) ==
    /\ req[r].compress # "none" => req'[r].compress = req[r].compress
    /\ req[r].detector # "none" => req'[r].detector = req[r].detector
    /\ req[r].archive # "none" => req'[r].archive = req[r].archive
    /\ req[r].persist # "none" => req'[r].persist = req[r].persist
AtMostOnce(r) ==
    /\ Cardinality(ArtifactsOf(r)) <= 1
    /\ Cardinality(ObjectsOf(r)) <= 1
    /\ Cardinality(RecordsOf(r)) <= 1

\* C18 as claimed: every ended upload made exactly one detector call and
\* exactly one archive call, at most one persistence write and at most one
\* derived file, and no call was repeated.
C18_CallsAsClaimed ==
    [][\A r \in Reqs :
          /\ NoSecondCall(r)
          /\ AtMostOnce(r)'
          /\ Done(r)' => req'[r].detector # "none" /\ req'[r].archive # "none"]_vars

\* C18: every upload makes at most one detector call, at most one archive
\* call and at most one persistence write and creates at most one derived
\* file; an upload answered 200 made each call exactly once; no call, failed
\* or not, is repeated.
C18_Calls ==
    [][\A r \in Reqs :
          /\ NoSecondCall(r)
          /\ AtMostOnce(r)'
          /\ Succeeded(r)' =>
               /\ req'[r].detector # "none"
               /\ req'[r].archive = "ok" /\ Cardinality(ObjectsOf(r)') = 1
               /\ req'[r].persist = "ok" /\ Cardinality(RecordsOf(r)') = 1]_vars
C18_Witness ==
    \E r, s \in Reqs :
        /\ Succeeded(r) /\ req[r].compress = "ok" /\ Cardinality(RecordsOf(r)) = 1
        /\ Done(s) /\ req[s].detector = "timeout" /\ req[s].archive = "none"
        /\ req[s].persist = "none"

\* C19: a Drive object created by an ended upload and referenced by no
\* FileRecord exists only when that upload's persistence write failed and the
\* upload was answered 500.
C19_OrphansOnlyFromPersistenceFailure ==
    \A o \in drive :
        (/\ Done(o.owner)
         /\ \A u \in Users : \A i \in 1..Len(db[u].files) : db[u].files[i].fileUrl # Url(o.id))
        => req[o.owner].persist = "error" /\ req[o.owner].status = 500

\* C20: uploadToGoogleDrive returns a URL only when authorize, files.create
\* (with an id) and permissions.create succeeded, in that order, the object
\* then being public; called without a path it makes no call and throws; when
\* a step fails no later step is made, no URL is returned and it throws.
DriveCalls == <<"authorize", "files.create", "permissions.create">>
C20_UrlOnlyAfterAllSteps ==
    \A r \in Reqs : req[r].archive # "none" =>
        LET steps == req[r].archiveSteps IN
        /\ Len(steps) <= 3
        /\ \A i \in 1..Len(steps) :
             /\ steps[i][1] = DriveCalls[i]
             /\ i < Len(steps) => steps[i][2] = "ok"
        /\ req[r].fileUrl # <<>> =>
             /\ steps = <<AuthorizeOk, CreateOk, PermissionsOk>>
             /\ req[r].archive = "ok"
             /\ \E o \in ObjectsOf(r) : o.public /\ <<Url(o.id)>> = req[r].fileUrl
        /\ ~req[r].hasFile => steps = <<>> /\ req[r].archive = "threw"
        /\ steps # <<AuthorizeOk, CreateOk, PermissionsOk>> =>
             /\ req[r].fileUrl = <<>>
             /\ req[r].archive \in {"threw", "pending"}
             /\ req[r].archive = "pending" <=> (steps # <<>> /\ steps[Len(steps)][2] = "pending")
C20_Witness ==
    \E r, s \in Reqs :
        /\ req[r].pc = "called" /\ req[r].fileUrl # <<>>
        /\ req[s].pc = "called" /\ ~req[s].hasFile /\ req[s].archive = "threw"

====
